---- MODULE Spec2Model ----
(***************************************************************************)
(* MU-TH-UR 6000 (App C): the lifecycle coordinator (app controller) and   *)
(* the analysis engine (telemetry-worker.js) as one state machine.         *)
(*                                                                         *)
(* Two threads: the coordinator (main thread, event handlers run to        *)
(* completion) and at most one live engine instance (a dedicated worker,   *)
(* message handlers run to completion, microtasks before the next task).   *)
(* They communicate by two FIFO channels, inbox (coordinator -> engine)    *)
(* and outbox (engine -> coordinator); worker.terminate() empties both.    *)
(***************************************************************************)
EXTENDS Integers, Sequences, FiniteSets, TLC

(* ------------------------------ bounds ------------------------------- *)

\* Number of file selections (change events carrying a file) in a session.
MaxSelections == 3

\* Number of messages a client posts to an engine taken alone.
MaxPosts == 2

\* Number of file selections in a session of a coordinator taken alone.
MaxCoordSelections == 2

\* Number of visit logs a client has an engine taken alone analyse.
MaxAnalyses == 2

\* Number of rows of the sample tables an engine taken alone analyses.
MaxRows == 4

\* Number of file selections in a session on exports of any column roles.
MaxRoleSelections == 1

\* Number of file selections in a session under fair scheduling.
MaxLiveSelections == 1

\* Number of tables of the databases an engine taken alone lists.
MaxTables == 2

(* -------------------------- program constants ------------------------ *)

MAX_ROWS_SCAN == 5000
MAX_GROUP_ROWS == 50

MAX_FILE_BYTES == 100 * 1024 * 1024
MAX_DB_BYTES == 100 * 1024 * 1024
MAX_WORKER_RESTARTS == 1

STATUS == {"IDLE", "RECEIVED", "PROCESSING", "VALID", "INVALID"}

\* A technical text (an error reason, a key of ERROR_MAP) is the sequence of
\* its tokens: its words and, one token each, the characters between them.
\* Joined is words.join(sep): "NO_TABLES_FOUND" is
\* Joined(<<"NO", "TABLES", "FOUND">>, "_").
Joined(words, sep) ==
  [i \in 1..(2 * Len(words) - 1) |-> IF i % 2 = 1 THEN words[(i + 1) \div 2] ELSE sep]

\* String.prototype.includes over texts whose words are matched whole.
Includes(text, key) ==
  \E i \in 1..(Len(text) - Len(key) + 1) : SubSeq(text, i, i + Len(key) - 1) = key

\* ERROR_MAP, its entries in the order Object.entries yields them.
ERROR_MAP ==
  << [key |-> Joined(<<"FILE", "EXCEEDS", "CAPACITY">>, " "),
      msg |-> "File too large. Export a smaller date range."],
     [key |-> Joined(<<"NO", "TABLES", "FOUND">>, " "),
      msg |-> "Not a valid EMR export (no tables detected)."],
     [key |-> Joined(<<"INVALID", "SCHEMA">>, " "),
      msg |-> "Required visit/workflow data not found in this export."],
     [key |-> Joined(<<"WORKER", "BUSY">>, " "),
      msg |-> "System busy. Please wait."],
     [key |-> Joined(<<"WORKER", "CRASH">>, " "),
      msg |-> "Analysis engine crashed. Please reload."],
     [key |-> Joined(<<"WORKER", "NOT", "READY">>, " "),
      msg |-> "System initializing. Please try again."],
     [key |-> Joined(<<"READ", "FAILED">>, " "),
      msg |-> "Browser could not read the file. Try re-exporting."],
     [key |-> Joined(<<"D3", "MISSING">>, " "),
      msg |-> "Visualization library failed to load (D3)."] >>

\* ERROR_MAP[key] || dflt
ErrorMapGet(key, dflt) ==
  LET at == {i \in 1..Len(ERROR_MAP) : ERROR_MAP[i].key = key}
  IN IF at = {} THEN dflt ELSE ERROR_MAP[CHOOSE i \in at : TRUE].msg

\* mapErrorToUser: the message of the first key the technical text includes.
mapErrorToUser(technical) ==
  LET at == {i \in 1..Len(ERROR_MAP) : Includes(technical, ERROR_MAP[i].key)}
  IN IF at = {} THEN "Processing error. Please try a different export."
     ELSE ERROR_MAP[CHOOSE i \in at : \A j \in at : i <= j].msg

(* --------------------------- message values -------------------------- *)

\* The value of a message's payload, or of a field of it, as a tagged value
\* [k, v]: k is what `!x`, typeof and Array.isArray tell apart.
\*   "undefined"  no value (undefined or null)
\*   "number"     the non-zero number v
\*   "array"      the array with the elements v (a sequence)
\*   "object"     the plain object with the fields v (a function from the
\*                names of the fields it has to their values)
Undefined == [k |-> "undefined", v |-> 0]
Num(n) == [k |-> "number", v |-> n]
Arr(seq) == [k |-> "array", v |-> seq]
Obj(fields) == [k |-> "object", v |-> fields]

(* ------------------------------- inputs ------------------------------ *)

\* A database export as the embedded SQL engine sees it: whether its bytes
\* are a database at all, and its user tables in engine-reported order.
\* A table is its name and its column names in declared order.
\* A cell is a tagged value [k, v]:
\*   "null"    SQL NULL
\*   "int"     the number v (storage class integer or real)
\*   "text"    the text number v of the universe of texts, which Date cannot
\*             parse: 0 is "UNKNOWN", 1 is "SYSTEM", 2.. are other labels
\*   "date"    a text Date parses, to v seconds after the epoch
\*   "numeral" the text that is the decimal numeral of v
NullCell == [k |-> "null", v |-> 0]
IntCell(n) == [k |-> "int", v |-> n]
TextCell(n) == [k |-> "text", v |-> n]
DateCell(n) == [k |-> "date", v |-> n]
NumeralCell(n) == [k |-> "numeral", v |-> n]

\* A table: its name, its column names in declared order and its rows in
\* rowid order, each row a function from column name to cell.
TablePatients ==
  [name |-> "patient_visits",
   columns |-> <<"id", "visit_time", "status">>,
   rows |-> << [id |-> IntCell(1), visit_time |-> IntCell(1700000000), status |-> TextCell(1)],
               [id |-> IntCell(2), visit_time |-> NullCell, status |-> NullCell] >>]
TableMisc == [name |-> "settings", columns |-> <<"id">>, rows |-> <<>>]

\* The files the user may select: size in bytes and content.
FileOversize == [size |-> MAX_FILE_BYTES + 1, isDb |-> TRUE, tables |-> <<TablePatients>>]
FileEmpty == [size |-> 0, isDb |-> FALSE, tables |-> <<>>]
FileCorrupt == [size |-> 512, isDb |-> FALSE, tables |-> <<>>]
FileNoTables == [size |-> 4096, isDb |-> TRUE, tables |-> <<>>]
FileNoCandidate == [size |-> 8192, isDb |-> TRUE, tables |-> <<TableMisc>>]
FileValid == [size |-> MAX_FILE_BYTES, isDb |-> TRUE, tables |-> <<TableMisc, TablePatients>>]

Files == {FileOversize, FileEmpty, FileCorrupt, FileNoTables, FileNoCandidate, FileValid}

(* ------------------------------- state ------------------------------- *)

VARIABLES
  state,      \* the coordinator's `state` object (worker, workerReady, ...)
  statusText, \* the message shown in the #status-text element
  readers,    \* FileReaders started and not yet finished: [job, file]
  SQL,        \* engine: "null" until initSqlJs resolves, then "loaded"
  db,         \* engine: the handle `db` refers to (0 = null)
  busy,       \* engine: the busy flag
  inst,       \* the live engine instance: init progress, crash, pending microtask
  inbox,      \* messages posted to the live engine, not yet handled
  outbox,     \* messages posted by the live engine, not yet handled
  handles,    \* database handles open in the live engine's heap
  hist,       \* history: per selection, the facts of the state it was made in
  started,    \* history: jobs for which a file read was started
  posted,     \* history: jobs for which an ANALYZE message was posted
  resolved,   \* history: jobs whose completion, error or failure was handled
  closed,     \* history: handles the live engine has closed
  nInst       \* history: number of engine instances constructed

vars == <<state, statusText, readers, SQL, db, busy, inst, inbox, outbox, handles,
          hist, started, posted, resolved, closed, nInst>>

\* The whole state as one value, so that handlers compose like the code.
World ==
  [state |-> state, statusText |-> statusText, readers |-> readers, SQL |-> SQL, db |-> db, busy |-> busy,
   inst |-> inst, inbox |-> inbox, outbox |-> outbox, handles |-> handles,
   hist |-> hist, started |-> started, posted |-> posted, resolved |-> resolved,
   closed |-> closed, nInst |-> nInst]

Becomes(w) ==
  /\ state' = w.state
  /\ statusText' = w.statusText
  /\ readers' = w.readers
  /\ SQL' = w.SQL
  /\ db' = w.db
  /\ busy' = w.busy
  /\ inst' = w.inst
  /\ inbox' = w.inbox
  /\ outbox' = w.outbox
  /\ handles' = w.handles
  /\ hist' = w.hist
  /\ started' = w.started
  /\ posted' = w.posted
  /\ resolved' = w.resolved
  /\ closed' = w.closed
  /\ nInst' = w.nInst

(* --------------- engine: telemetry-worker.js, pure parts ------------- *)

\* A table name as the patterns see it: the sequence of its tokens (words,
\* parts of words and the characters between them), and a token with its
\* letters in lower case.
Tokens(name) ==
  CASE name = "patient_visits" -> <<"patient", "_", "visit", "s">>
    [] name = "visit_log" -> <<"visit", "_", "log">>
    [] name = "event_log" -> <<"event", "_", "log">>
    [] name = "catalog" -> <<"cata", "log">>
    [] name = "sqlite_sequence" -> <<"sqlite", "_", "sequence">>
    [] name = "sqlite_stat1" -> <<"sqlite", "_", "stat", "1">>
    [] name = "sqlite3_visits" -> <<"sqlite", "3", "_", "visit", "s">>
    [] OTHER -> <<name>>
Lower(token) ==
  CASE token = "Telemetry" -> "telemetry"
    [] OTHER -> token

\* /event|visit|patient|log|telemetry/i.test(n): one of the five words
\* occurs in the name, whatever the case of its letters.
IsCandidateTable(n) ==
  \E i \in 1..Len(Tokens(n)) :
    Lower(Tokens(n)[i]) \in {"event", "visit", "patient", "log", "telemetry"}
\* The four column-role patterns over the column names of the model.
IsTimeColumn(c) == c \in {"visit_time", "created", "date"}
IsDurationColumn(c) == c \in {"duration", "length_min"}
IsOperatorColumn(c) == c \in {"operator", "nurse"}
IsStatusColumn(c) == c \in {"status", "category"}

\* Array.prototype.find: the first element of seq among those at the places
\* hits (the places where the test holds), as a sequence of length 0
\* (undefined) or 1.
Find(seq, hits) ==
  IF hits = {} THEN <<>>
  ELSE <<seq[CHOOSE i \in hits : \A j \in hits : i <= j]>>

\* seq.slice(0, n)
Take(seq, n) == SubSeq(seq, 1, IF Len(seq) < n THEN Len(seq) ELSE n)
\* seq.slice(-n)
Last(seq, n) == SubSeq(seq, IF Len(seq) > n THEN Len(seq) - n + 1 ELSE 1, Len(seq))

\* The ascending order of SQLite over cells: NULL, then numbers by value,
\* then texts (here: by kind, then by number).
ClassRank(c) ==
  CASE c.k = "null" -> 0
    [] c.k = "int" -> 1
    [] c.k = "date" -> 2
    [] c.k = "numeral" -> 3
    [] OTHER -> 4
CellBefore(a, b) ==
  \/ ClassRank(a) < ClassRank(b)
  \/ ClassRank(a) = ClassRank(b) /\ a.v < b.v

\* The same sequence, its elements worked out once and for all.
AsTuple(seq) == seq \o <<>>

\* A stable sort: before holds the pairs of places <<i, j>> with seq[i]
\* strictly before seq[j] in the order sorted by; the element at place k is
\* the one with k - 1 elements before it (equals keep their order).
SortBy(seq, before) ==
  LET n == Len(seq)
      rank == AsTuple([i \in 1..n |->
                 1 + Cardinality({j \in 1..n :
                       j # i /\ (<<j, i>> \in before
                                 \/ (<<i, j>> \notin before /\ j < i))})])
      place == AsTuple([k \in 1..n |-> CHOOSE i \in 1..n : rank[i] = k])
  IN AsTuple([k \in 1..n |-> seq[place[k]]])

\* The pairs of places of a sequence of cells in SQLite's order.
CellOrder(cells) ==
  {p \in (1..Len(cells)) \X (1..Len(cells)) : CellBefore(cells[p[1]], cells[p[2]])}

\* The elements of a set of integers in ascending order.
Ascending(S) ==
  IF S = {} THEN <<>>
  ELSE LET least == CHOOSE x \in S : \A y \in S : x <= y
           greatest == CHOOSE x \in S : \A y \in S : y <= x
           IsElement(x) == x \in S
       IN SelectSeq([i \in 1..(greatest - least + 1) |-> least + i - 1], IsElement)

normalizeDateOfNull(value) ==
  CASE value.k = "null" -> <<0>>
    [] value.k = "int" /\ value.v > 1000000000 -> <<value.v>>
    [] value.k = "int" -> <<value.v \div 1000>>
    [] value.k = "date" -> <<value.v>>
    [] OTHER -> <<>>

\* normalizeDate: the instant of a cell in seconds after the epoch, as a
\* sequence of length 0 (null) or 1. A number above 1e9 counts seconds, a
\* smaller one milliseconds; numbers above 1e12 (milliseconds) are beyond
\* the integers of the model. What Date makes of a numeral text depends on
\* the browser; the model holds numerals as labels only, never in a time
\* column.
normalizeDate(value) ==
  CASE value.k = "null" -> <<>>
    [] value.k = "int" /\ value.v > 1000000000 -> <<value.v>>
    [] value.k = "int" -> <<value.v \div 1000>>
    [] value.k = "date" -> <<value.v>>
    [] value.k = "numeral" -> <<>>
    [] OTHER -> <<>>

\* The bucket key of an instant: date.setMinutes(0, 0, 0) then toISOString(),
\* as the number of the hour since the epoch (the local time zone is a
\* whole number of hours from UTC; ISO strings of the years 0000 to 9999
\* sort as their instants do).
HourKey(sec) == sec \div 3600

\* ORDER BY col ASC: the NULLs in rowid order, then the other cells in
\* SQLite's order.
OrderByAsc(cells) ==
  LET IsNull(c) == c.k = "null"
      HasValue(c) == c.k # "null"
      valued == SelectSeq(cells, HasValue)
  IN SelectSeq(cells, IsNull) \o SortBy(valued, CellOrder(valued))

\* buckets holds a count for each key in the order the keys were first met
\* (Object.keys); the keys are then sorted and the last 24 kept.
buildVisits(table, col) ==
  LET cells == AsTuple([i \in 1..Len(table.rows) |-> table.rows[i][col]])
      scanned == Take(OrderByAsc(cells), MAX_ROWS_SCAN)
      IsDate(d) == d # <<>>
      dates == SelectSeq(AsTuple([i \in 1..Len(scanned) |-> normalizeDate(scanned[i])]), IsDate)
      hours == AsTuple([i \in 1..Len(dates) |-> HourKey(dates[i][1])])
      first == Ascending({i \in 1..Len(hours) : \A j \in 1..(i - 1) : hours[j] # hours[i]})
      keys == AsTuple([n \in 1..Len(first) |-> hours[first[n]]])
      sorted == Last(SortBy(keys, {p \in (1..Len(keys)) \X (1..Len(keys)) :
                                     keys[p[1]] < keys[p[2]]}), 24)
  IN AsTuple([n \in 1..Len(sorted) |->
        [date |-> sorted[n],
         value |-> Cardinality({i \in 1..Len(hours) : hours[i] = sorted[n]})]])

buildDurationUnlimited(table, col) ==
  LET cells == AsTuple([i \in 1..Len(table.rows) |-> table.rows[i][col]])
      IsNumeric(c) == c.k = "int"
      numeric == SelectSeq(cells, IsNumeric)
  IN [n \in 1..Len(numeric) |-> [index |-> n - 1, value |-> numeric[n].v]]

buildDuration(table, col) ==
  LET cells == AsTuple([i \in 1..Len(table.rows) |-> table.rows[i][col]])
      IsNumeric(c) == c.k = "int"
      numeric == Take(SelectSeq(cells, IsNumeric), 100)
  IN [n \in 1..Len(numeric) |-> [index |-> n - 1, value |-> numeric[n].v]]

\* SELECT col, COUNT(*) ... GROUP BY col ORDER BY COUNT(*) DESC LIMIT ?
\* The groups come in key order and the sort by count keeps equals in it.
GroupCounts(table, col, limit) ==
  LET cells == AsTuple([i \in 1..Len(table.rows) |-> table.rows[i][col]])
      first == Ascending({i \in 1..Len(cells) : \A j \in 1..(i - 1) : cells[j] # cells[i]})
      keys == AsTuple([n \in 1..Len(first) |-> cells[first[n]]])
      distinct == SortBy(keys, CellOrder(keys))
      count(c) == Cardinality({i \in 1..Len(cells) : cells[i] = c})
      groups == AsTuple([n \in 1..Len(distinct) |->
                           [key |-> distinct[n], n |-> count(distinct[n])]])
      byCount == {p \in (1..Len(groups)) \X (1..Len(groups)) :
                    groups[p[1]].n > groups[p[2]].n}
  IN Take(SortBy(groups, byCount), limit)

\* String(k ?? dflt): the label of a group key.
LabelOf(k, dflt) ==
  CASE k.k = "null" -> TextCell(dflt)
    [] k.k = "int" -> NumeralCell(k.v)
    [] OTHER -> k

buildStates(table, col) ==
  LET g == GroupCounts(table, col, MAX_GROUP_ROWS)
  IN [n \in 1..Len(g) |-> [category |-> LabelOf(g[n].key, 0), value |-> g[n].n]]

buildOperators(table, col) ==
  LET g == GroupCounts(table, col, MAX_GROUP_ROWS)
  IN [n \in 1..Len(g) |-> [name |-> LabelOf(g[n].key, 1), value |-> g[n].n]]

aggregateTableDefaulting(table) ==
  LET columns == table.columns
      Role(hits) == IF hits = {} THEN columns[1] ELSE Find(columns, hits)[1]
  IN [visits |-> buildVisits(table, Role({i \in 1..Len(columns) : IsTimeColumn(columns[i])})),
      duration |-> buildDuration(table, Role({i \in 1..Len(columns) : IsDurationColumn(columns[i])})),
      states |-> buildStates(table, Role({i \in 1..Len(columns) : IsStatusColumn(columns[i])})),
      operators |-> buildOperators(table, Role({i \in 1..Len(columns) : IsOperatorColumn(columns[i])})),
      volume |-> <<>>]

aggregateTable(table) ==
  LET columns == table.columns
      colTime == Find(columns, {i \in 1..Len(columns) : IsTimeColumn(columns[i])})
      colDur == Find(columns, {i \in 1..Len(columns) : IsDurationColumn(columns[i])})
      colOp == Find(columns, {i \in 1..Len(columns) : IsOperatorColumn(columns[i])})
      colStat == Find(columns, {i \in 1..Len(columns) : IsStatusColumn(columns[i])})
  IN [visits |-> IF colTime # <<>> THEN buildVisits(table, colTime[1]) ELSE <<>>,
      duration |-> IF colDur # <<>> THEN buildDuration(table, colDur[1]) ELSE <<>>,
      states |-> IF colStat # <<>> THEN buildStates(table, colStat[1]) ELSE <<>>,
      operators |-> IF colOp # <<>> THEN buildOperators(table, colOp[1]) ELSE <<>>,
      volume |-> <<>>]

(* ------------- engine: telemetry-worker.js, state and steps ---------- *)

\* No engine instance (state.worker is null, or the instance was terminated).
NoInst == [init |-> "none", crashed |-> FALSE, errEvent |-> FALSE, pending |-> <<>>]
\* A fresh instance: the script has run, init() awaits initSqlJs.
NewInst == [init |-> "pending", crashed |-> FALSE, errEvent |-> FALSE, pending |-> <<>>]

\* The messages of the engine; error is a text (empty when the message has
\* none) and job is history (the job a reply answers).
\* The result of aggregateTable is an object of five arrays.
ReadyMsg == [type |-> "READY", payload |-> Undefined, error |-> <<>>, job |-> 0]
CompleteMsg(result, job) ==
  [type |-> "ANALYSIS_COMPLETE",
   payload |-> Obj([f \in DOMAIN result |-> Arr(result[f])]),
   error |-> <<>>, job |-> job]
ErrorMsg(reason, job) ==
  [type |-> "ERROR", payload |-> Undefined, error |-> reason, job |-> job]

\* postMessage of the engine.
Post(w, msg) == [w EXCEPT !.outbox = Append(@, msg)]

closeDbSkipped(w) == w

closeDb(w) ==
  IF w.db # 0
  THEN [w EXCEPT !.handles = @ \ {w.db}, !.closed = @ \cup {w.db}, !.db = 0]
  ELSE w

\* name LIKE 'sqlite_%': LIKE ignores the case of letters, `_` stands for
\* any one character and `%` for any characters, so the name is sqlite and
\* at least one character more.
IsSystemTable(n) == Len(Tokens(n)) >= 2 /\ Lower(Tokens(n)[1]) = "sqlite"

listTables(buffer) ==
  LET IsUserTable(t) == ~IsSystemTable(t.name)
  IN SelectSeq(buffer.tables, IsUserTable)

analyzeOpenedKeepingHandle(w, b, job) ==
  LET tables == listTables(b)
      mainTable == Find(tables, {i \in 1..Len(tables) : IsCandidateTable(tables[i].name)})
  IN IF w.db # 0
     THEN [w |-> w, msg |-> ErrorMsg(Joined(<<"database", "is", "locked">>, " "), job)]
     ELSE [w |-> [w EXCEPT !.db = job, !.handles = @ \cup {job}],
           msg |-> IF ~b.isDb \/ Len(tables) = 0 \/ mainTable = <<>>
                   THEN ErrorMsg(Joined(<<"INVALID", "SCHEMA">>, "_"), job)
                   ELSE CompleteMsg(aggregateTable(mainTable[1]), job)]

\* analyzeDatabase from closeDb() on, for the bytes b of a buffer that passed
\* the guards: the state it leaves and the message its caller posts. The
\* handle it opens is named after the job. Bytes that are no database open
\* all the same and fail at the first statement prepared (listTables).
analyzeOpened(w, b, job) ==
  LET w1 == closeDb(w)
      w2 == [w1 EXCEPT !.db = job, !.handles = @ \cup {job}]
      tables == listTables(b)
      mainTable == Find(tables, {i \in 1..Len(tables) : IsCandidateTable(tables[i].name)})
  IN IF ~b.isDb
     THEN [w |-> w2, msg |-> ErrorMsg(Joined(<<"file", "is", "not", "a", "database">>, " "), job)]
     ELSE IF Len(tables) = 0
     THEN [w |-> w2, msg |-> ErrorMsg(Joined(<<"NO", "TABLES", "FOUND">>, "_"), job)]
     ELSE IF mainTable = <<>>
     THEN [w |-> w2, msg |-> ErrorMsg(Joined(<<"INVALID", "SCHEMA">>, "_"), job)]
     ELSE [w |-> w2, msg |-> CompleteMsg(aggregateTable(mainTable[1]), job)]

analyzeDatabaseClosingFirst(w, buffer, job) ==
  LET c == closeDb(w)
  IN IF c.SQL = "null"
     THEN [w |-> c, msg |-> ErrorMsg(Joined(<<"WORKER", "NOT", "READY">>, "_"), job)]
     ELSE IF buffer = <<>> \/ buffer[1].size = 0
     THEN [w |-> c, msg |-> ErrorMsg(Joined(<<"EMPTY", "FILE">>, "_"), job)]
     ELSE IF buffer[1].size > MAX_DB_BYTES
     THEN [w |-> c, msg |-> ErrorMsg(Joined(<<"FILE", "EXCEEDS", "CAPACITY">>, "_"), job)]
     ELSE analyzeOpened(c, buffer[1], job)

\* analyzeDatabase: the state it leaves and the message its caller posts
\* (ANALYSIS_COMPLETE with the result, or ERROR with the thrown message).
\* buffer is a sequence of length 0 (absent) or 1 (the bytes of a file).
analyzeDatabase(w, buffer, job) ==
  IF w.SQL = "null"
  THEN [w |-> w, msg |-> ErrorMsg(Joined(<<"WORKER", "NOT", "READY">>, "_"), job)]
  ELSE IF buffer = <<>> \/ buffer[1].size = 0
  THEN [w |-> w, msg |-> ErrorMsg(Joined(<<"EMPTY", "FILE">>, "_"), job)]
  ELSE IF buffer[1].size > MAX_DB_BYTES
  THEN [w |-> w, msg |-> ErrorMsg(Joined(<<"FILE", "EXCEEDS", "CAPACITY">>, "_"), job)]
  ELSE analyzeOpened(w, buffer[1], job)

\* onmessage up to its await: analyzeDatabase has no await of its own, so it
\* runs to its end here and the reply waits for the microtask.
onmessage(w) ==
  LET e == Head(w.inbox)
      w0 == [w EXCEPT !.inbox = Tail(@)]
  IN IF e.type # "ANALYZE" THEN w0
     ELSE IF w0.busy THEN Post(w0, ErrorMsg(Joined(<<"WORKER", "BUSY">>, "_"), e.job))
     ELSE LET r == analyzeDatabase([w0 EXCEPT !.busy = TRUE], e.buffer, e.job)
          IN [r.w EXCEPT !.inst.pending = <<r.msg>>]

onmessageResumeBusy(w) ==
  [Post(w, w.inst.pending[1]) EXCEPT !.inst.pending = <<>>]

\* onmessage after its await: post the reply, then finally busy = false.
onmessageResume(w) ==
  [Post(w, w.inst.pending[1]) EXCEPT !.busy = FALSE, !.inst.pending = <<>>]

\* init(): initSqlJs resolved, or rejected with an error of message
\* errMessage.
init(w, loaded, errMessage) ==
  IF loaded
  THEN [Post([w EXCEPT !.SQL = "loaded"], ReadyMsg) EXCEPT !.inst.init = "done"]
  ELSE [Post(w, ErrorMsg(Joined(<<"INIT", "FAILED">>, "_") \o <<":", " ">> \o errMessage, 0))
          EXCEPT !.inst.init = "failed"]

(* ------------------- coordinator: the app controller ----------------- *)

\* ui.setStatus: the status code and the message shown (the tooltip, its
\* third argument, is left out).
setStatus(w, code, message) ==
  [w EXCEPT !.state.status = code, !.statusText = message]

\* teardownWorker; worker.terminate() ends the instance and discards what
\* it had posted and what was posted to it.
teardownWorker(w) ==
  LET w1 == [w EXCEPT !.state.workerBootTimer = "null"]
      w2 == IF w1.state.worker # 0
            THEN [w1 EXCEPT !.SQL = "null", !.db = 0, !.busy = FALSE, !.inst = NoInst,
                            !.inbox = <<>>, !.outbox = <<>>, !.handles = {},
                            !.closed = {}]
            ELSE w1
  IN [w2 EXCEPT !.state.worker = 0, !.state.workerReady = FALSE]

\* initWorker; created says whether `new Worker` returned or threw.
initWorker(w, created) ==
  LET w1 == [teardownWorker(w) EXCEPT !.state.workerReady = FALSE]
  IN IF created
     THEN [w1 EXCEPT !.nInst = @ + 1, !.state.worker = w1.nInst + 1,
                     !.inst = NewInst, !.state.workerBootTimer = "armed"]
     ELSE setStatus(w1, "INVALID", "Browser Incompatible")

maybeRestartWorkerUnbounded(w, created) ==
  initWorker([w EXCEPT !.state.workerRestarts = @ + 1], created)

maybeRestartWorker(w, created) ==
  IF w.state.workerRestarts >= MAX_WORKER_RESTARTS THEN w
  ELSE initWorker([w EXCEPT !.state.workerRestarts = @ + 1], created)

onWorkerCrashQuiet(w, reasonKey, created) ==
  LET w1 == [w EXCEPT !.state.isProcessing = FALSE, !.resolved = w.started]
  IN maybeRestartWorker(IF w.state.isProcessing
                        THEN setStatus(w1, "INVALID", ErrorMapGet(reasonKey, "Worker failure"))
                        ELSE w1,
                        created)

\* onWorkerCrash fails whatever job is in flight: every job started so far
\* counts as resolved.
onWorkerCrash(w, reasonKey, created) ==
  LET w1 == [w EXCEPT !.state.isProcessing = FALSE, !.resolved = w.started]
  IN maybeRestartWorker(setStatus(w1, "INVALID", ErrorMapGet(reasonKey, "Worker failure")),
                        created)

\* The callback of the boot timer.
bootTimeout(w, created) ==
  LET w1 == [w EXCEPT !.state.workerBootTimer = "fired"]
  IN IF ~w1.state.workerReady
     THEN maybeRestartWorker(setStatus(w1, "INVALID", "System Failure"), created)
     ELSE w1

\* handleFileUpload from "process" on: the job starts and its file is read.
handleFileUploadProcess(h, file) ==
  LET job == Len(h.hist)
  IN [setStatus([h EXCEPT !.state.isProcessing = TRUE], "PROCESSING",
                "Analyzing EMR database...")
        EXCEPT !.readers = @ \cup {[job |-> job, file |-> file]},
               !.started = @ \cup {job}]

handleFileUploadUnready(h, file, created) ==
  handleFileUploadProcess(setStatus(h, "RECEIVED", "File received"), file)

\* handleFileUpload from "show file received" on: the readiness check.
handleFileUploadReceived(h, file, created) ==
  LET h1 == setStatus(h, "RECEIVED", "File received")
  IN IF h1.state.worker = 0 \/ ~h1.state.workerReady
     THEN maybeRestartWorker(setStatus(h1, "INVALID", "System initializing"), created)
     ELSE handleFileUploadProcess(h1, file)

handleFileUploadUncapped(h, file, created) == handleFileUploadReceived(h, file, created)

\* handleFileUpload from the size guardrail on.
handleFileUploadSized(h, file, created) ==
  IF file.size > MAX_FILE_BYTES THEN setStatus(h, "INVALID", "File too large")
  ELSE handleFileUploadReceived(h, file, created)

\* The history of a selection: the facts of the state it is made in. The
\* selection is the job Len(hist).
Selected(w, file) ==
  [w EXCEPT !.hist = Append(@, [over |-> file.size > MAX_FILE_BYTES,
                                inflight |-> w.state.isProcessing,
                                ready |-> w.state.worker # 0 /\ w.state.workerReady,
                                epoch |-> w.state.workerRestarts])]

handleFileUploadOverlapping(w, files, created) ==
  IF files = <<>> THEN w
  ELSE handleFileUploadSized(Selected(w, files[1]), files[1], created)

\* handleFileUpload; files is input.files, a sequence of length 0 or 1.
handleFileUpload(w, files, created) ==
  IF files = <<>> THEN w
  ELSE LET h == Selected(w, files[1])
       IN IF h.state.isProcessing THEN h
          ELSE handleFileUploadSized(h, files[1], created)

\* reader.onerror
readerOnError(w, r) ==
  setStatus([w EXCEPT !.readers = @ \ {r}, !.state.isProcessing = FALSE,
                      !.resolved = @ \cup {r.job}], "INVALID", "Read Failed")

readerOnLoadCopying(w, r) ==
  LET m == [type |-> "ANALYZE", buffer |-> <<r.file>>, job |-> r.job]
  IN IF w.state.worker # 0
     THEN [w EXCEPT !.inbox = Append(@, m), !.posted = @ \cup {r.job}]
     ELSE setStatus([w EXCEPT !.readers = @ \ {r}, !.state.isProcessing = FALSE,
                              !.resolved = @ \cup {r.job}], "INVALID", "Transfer Failed")

\* reader.onload: state.worker is read when the read completes; postMessage
\* throws only when it is null.
readerOnLoad(w, r) ==
  LET w1 == [w EXCEPT !.readers = @ \ {r}]
  IN IF w1.state.worker # 0
     THEN [w1 EXCEPT !.inbox = Append(@, [type |-> "ANALYZE", buffer |-> <<r.file>>,
                                          job |-> r.job]),
                     !.posted = @ \cup {r.job}]
     ELSE setStatus([w1 EXCEPT !.state.isProcessing = FALSE,
                               !.resolved = @ \cup {r.job}], "INVALID", "Transfer Failed")

\* validatePayload: ok, and the payload as the call leaves it (its optional
\* series defaulted in place when ok). An array is an object to typeof and
\* has no visits.
OptionalSeries == {"duration", "states", "operators", "volume"}
validatePayloadStrict(payload) ==
  IF payload.k # "object" THEN [ok |-> FALSE, payload |-> payload]
  ELSE [ok |-> \A f \in OptionalSeries \cup {"visits"} :
                 f \in DOMAIN payload.v /\ payload.v[f].k = "array",
        payload |-> payload]

validatePayload(payload) ==
  IF payload.k \notin {"object", "array"} THEN [ok |-> FALSE, payload |-> payload]
  ELSE IF \/ payload.k = "array"
          \/ "visits" \notin DOMAIN payload.v
          \/ payload.v.visits.k # "array"
  THEN [ok |-> FALSE, payload |-> payload]
  ELSE LET p == payload.v
           IsArray(f) == f \in DOMAIN p /\ p[f].k = "array"
       IN [ok |-> TRUE,
           payload |-> Obj([f \in DOMAIN p \cup OptionalSeries |->
                              IF f \in OptionalSeries /\ ~IsArray(f)
                              THEN Arr(<<>>) ELSE p[f]])]

\* toSafeDate of a bucket key: the instant of the hour, in seconds.
toSafeDate(v) == v * 3600

\* state.data is the job it came from (history) and, as a sequence of
\* length 1, the object published; the data shown before any analysis
\* (generateSyntheticData) are held as no object.
SyntheticData == [job |-> 0, payload |-> <<>>]

\* handleWorkerMessage, type READY.
onReadyTimerKept(w) == [w EXCEPT !.state.workerReady = TRUE]

onReady(w) ==
  [w EXCEPT !.state.workerReady = TRUE, !.state.workerBootTimer = "null"]

onAnalysisCompleteClearing(w, msg) ==
  LET w1 == [w EXCEPT !.state.isProcessing = FALSE, !.resolved = @ \cup {msg.job}]
      validated == validatePayload(msg.payload)
  IN IF ~validated.ok
     THEN setStatus([w1 EXCEPT !.state.data = [job |-> msg.job, payload |-> <<>>]],
                    "INVALID", "Invalid export format")
     ELSE setStatus([w1 EXCEPT !.state.data =
                       [job |-> msg.job, payload |-> <<validated.payload.v>>]],
                    "VALID", "Data loaded")

\* handleWorkerMessage, type ANALYSIS_COMPLETE; data.job is history (the job
\* the data came from).
onAnalysisComplete(w, msg) ==
  LET w1 == [w EXCEPT !.state.isProcessing = FALSE, !.resolved = @ \cup {msg.job}]
      validated == validatePayload(msg.payload)
  IN IF ~validated.ok THEN setStatus(w1, "INVALID", "Invalid export format")
     ELSE LET p == validated.payload.v
              visits == [i \in 1..Len(p.visits.v) |->
                           [date |-> toSafeDate(p.visits.v[i].date),
                            value |-> p.visits.v[i].value]]
          IN setStatus([w1 EXCEPT !.state.data =
                           [job |-> msg.job,
                            payload |-> <<[p EXCEPT !.visits = Arr(visits)]>>]],
                       "VALID", "Data loaded")

\* handleWorkerMessage, type ERROR.
onError(w, msg) ==
  LET technical == msg.error
      userMsg == mapErrorToUser(technical)
  IN setStatus([w EXCEPT !.state.isProcessing = FALSE,
                         !.resolved = @ \cup ({msg.job} \ {0})], "INVALID", userMsg)

handleWorkerMessage(w, msg) ==
  CASE msg.type = "READY" -> onReady(w)
    [] msg.type = "ANALYSIS_COMPLETE" -> onAnalysisComplete(w, msg)
    [] msg.type = "ERROR" -> onError(w, msg)
    [] OTHER -> w

(* ------------------------------ actions ------------------------------ *)

\* The user picks a file (or none) in the file input.
FileSelected ==
  \E files \in {<<>>} \cup {<<f>> : f \in Files}, created \in BOOLEAN :
    /\ Len(hist) < MaxSelections
    /\ Becomes(handleFileUpload(World, files, created))

ReaderLoaded == \E r \in readers : Becomes(readerOnLoad(World, r))

ReaderFailed == \E r \in readers : Becomes(readerOnError(World, r))

\* The coordinator handles the next message of the engine.
MessageReceived ==
  /\ outbox # <<>>
  /\ Becomes(handleWorkerMessage([World EXCEPT !.outbox = Tail(@)], Head(outbox)))

BootTimerFired ==
  \E created \in BOOLEAN :
    /\ state.workerBootTimer = "armed"
    /\ Becomes(bootTimeout(World, created))

\* w.onerror: the error event of a crashed engine reaches the coordinator.
WorkerErrorReceived ==
  \E created \in BOOLEAN :
    /\ inst.errEvent
    /\ Becomes(onWorkerCrash([World EXCEPT !.inst.errEvent = FALSE],
                             Joined(<<"WORKER", "CRASH">>, " "), created))

EngineInitialised ==
  \E loaded \in BOOLEAN :
    /\ inst.init = "pending" /\ ~inst.crashed
    /\ Becomes(init(World, loaded, <<"abort">>))

\* The engine takes the next message. analyzeDatabase awaits nothing, so the
\* promise onmessage awaits is settled when it is reached and the rest of
\* the handler is a microtask; the worker's event loop runs it before it
\* dispatches the next message, hence the guard on inst.pending.
EngineMessageHandled ==
  /\ inst.init # "none" /\ ~inst.crashed
  /\ inbox # <<>> /\ inst.pending = <<>>
  /\ Becomes(onmessage(World))

EngineMessageResumed ==
  /\ inst.pending # <<>> /\ ~inst.crashed
  /\ Becomes(onmessageResume(World))

\* The engine dies (an uncaught error, the script failing to load): it
\* handles nothing more and its error event is on its way.
EngineCrashed ==
  /\ inst.init # "none" /\ ~inst.crashed
  /\ inst' = [inst EXCEPT !.crashed = TRUE, !.errEvent = TRUE, !.pending = <<>>]
  /\ UNCHANGED <<state, statusText, readers, SQL, db, busy, inbox, outbox, handles,
                 hist, started, posted, resolved, closed, nInst>>

\* The state before bootstrap(): the initial values of `state` and of the
\* page, no engine.
Blank ==
  [state |-> [worker |-> 0, workerReady |-> FALSE,
              workerBootTimer |-> "null", workerRestarts |-> 0,
              status |-> "IDLE", data |-> SyntheticData,
              isProcessing |-> FALSE],
   statusText |-> "", readers |-> {}, SQL |-> "null", db |-> 0, busy |-> FALSE,
   inst |-> NoInst, inbox |-> <<>>, outbox |-> <<>>, handles |-> {},
   hist |-> <<>>, started |-> {}, posted |-> {}, resolved |-> {},
   closed |-> {}, nInst |-> 0]

\* bootstrap() with D3 present: initWorker, then the demo data and IDLE.
bootstrap(w, created) ==
  setStatus(initWorker(w, created), "IDLE", "Waiting for data input")

\* The state is w.
Is(w) ==
  /\ state = w.state /\ statusText = w.statusText /\ readers = w.readers
  /\ SQL = w.SQL /\ db = w.db /\ busy = w.busy /\ inst = w.inst
  /\ inbox = w.inbox /\ outbox = w.outbox /\ handles = w.handles
  /\ hist = w.hist /\ started = w.started /\ posted = w.posted
  /\ resolved = w.resolved /\ closed = w.closed /\ nInst = w.nInst

Init == \E created \in BOOLEAN : Is(bootstrap(Blank, created))

Next ==
  \/ FileSelected
  \/ ReaderLoaded
  \/ ReaderFailed
  \/ MessageReceived
  \/ BootTimerFired
  \/ WorkerErrorReceived
  \/ EngineInitialised
  \/ EngineMessageHandled
  \/ EngineMessageResumed
  \/ EngineCrashed

Spec == Init /\ [][Next]_vars

\* The whole program under the scheduling the platform guarantees: a file
\* read under way completes or fails, a message or an error event delivered
\* is handled, a live engine goes on with its initialisation and with the
\* messages posted to it, and an armed timer fires: each of the two event
\* loops takes a step as long as it has one to take. Nothing makes the user
\* select a file or the engine crash. The user has a valid export, its
\* candidate table without rows, and one without a candidate table.
FileNoRows ==
  [size |-> 4096, isDb |-> TRUE,
   tables |-> <<[name |-> "event_log", columns |-> <<"id", "created">>, rows |-> <<>>]>>]

LiveFileSelected ==
  \E f \in {FileNoRows, FileNoCandidate}, created \in BOOLEAN :
    /\ Len(hist) < MaxLiveSelections
    /\ Becomes(handleFileUpload(World, <<f>>, created))

LiveNext ==
  \/ LiveFileSelected
  \/ ReaderLoaded
  \/ ReaderFailed
  \/ MessageReceived
  \/ BootTimerFired
  \/ WorkerErrorReceived
  \/ EngineInitialised
  \/ EngineMessageHandled
  \/ EngineMessageResumed
  \/ EngineCrashed

\* The events the coordinator's event loop has to handle, and the steps the
\* engine's has to take.
CoordinatorStep ==
  ReaderLoaded \/ ReaderFailed \/ MessageReceived \/ WorkerErrorReceived \/ BootTimerFired
EngineStep == EngineInitialised \/ EngineMessageHandled \/ EngineMessageResumed

LiveSpec ==
  /\ Init /\ [][LiveNext]_vars
  /\ WF_vars(CoordinatorStep)
  /\ WF_vars(EngineStep)

(* ------------------- the engine alone, with any client --------------- *)

\* A database holding nothing but a table of SQLite's own.
TableSequence == [name |-> "sqlite_sequence", columns |-> <<"name", "seq">>, rows |-> <<>>]
FileSystemOnly == [size |-> 4096, isDb |-> TRUE, tables |-> <<TableSequence>>]

\* What a client may post to the engine: ANALYZE with any buffer or none,
\* or a message of another type.
Buffers == {<<>>} \cup {<<f>> : f \in Files \cup {FileSystemOnly}}
ClientMessages ==
  {[type |-> "ANALYZE", buffer |-> b] : b \in Buffers}
    \cup {[type |-> "PING", buffer |-> <<>>]}

\* postMessage to the engine; the messages are numbered as they are posted.
ClientPosted ==
  \E m \in ClientMessages :
    /\ Cardinality(posted) < MaxPosts
    /\ Becomes([World EXCEPT
                  !.inbox = Append(@, [type |-> m.type, buffer |-> m.buffer,
                                       job |-> Cardinality(posted) + 1]),
                  !.posted = @ \cup {Cardinality(posted) + 1}])

\* One engine instance, just constructed; its replies stay in outbox.
EngineInit == Is(bootstrap(Blank, TRUE))

EngineNext ==
  \/ ClientPosted
  \/ EngineInitialised
  \/ EngineMessageHandled
  \/ EngineMessageResumed

EngineSpec == EngineInit /\ [][EngineNext]_vars

(* ---------------- the engine alone, analysing visit logs ------------- *)

\* A visit log of n rows, every row in an hour, of a length, in a status and
\* by a nurse of its own: n buckets, n numbers, n groups.
VisitLog(n) ==
  [name |-> "visit_log",
   columns |-> <<"id", "visit_time", "length_min", "status", "nurse">>,
   rows |-> AsTuple([i \in 1..n |->
              [id |-> IntCell(i), visit_time |-> IntCell(1700000000 + 3600 * i),
               length_min |-> IntCell(i), status |-> TextCell(i + 1),
               nurse |-> IntCell(i)]])]

\* The sizes of the logs: none, and about the caps of the series.
LogSizes == {0, 24, 25, MAX_GROUP_ROWS + 1, 100, 101}
LogFiles == {[size |-> 4096 + 64 * n, isDb |-> TRUE, tables |-> <<VisitLog(n)>>] : n \in LogSizes}

\* A client posts ANALYZE with the bytes of a visit log.
LogPosted ==
  \E f \in LogFiles :
    /\ Cardinality(posted) < MaxAnalyses
    /\ Becomes([World EXCEPT
                  !.inbox = Append(@, [type |-> "ANALYZE", buffer |-> <<f>>,
                                       job |-> Cardinality(posted) + 1]),
                  !.posted = @ \cup {Cardinality(posted) + 1}])

AnalysisNext ==
  \/ LogPosted
  \/ EngineInitialised
  \/ EngineMessageHandled
  \/ EngineMessageResumed

AnalysisSpec == EngineInit /\ [][AnalysisNext]_vars

(* --------------- the engine alone, analysing sample tables ----------- *)

\* The sequences of at most n elements of S.
SeqsUpTo(S, n) == UNION {[1..k -> S] : k \in 0..n}

\* What a time column may hold: NULL, numbers of seconds (one in an hour,
\* one in the next), a number of milliseconds, a text Date parses (to the
\* hour of the first number) and a text it does not.
TimeCells ==
  {NullCell, IntCell(1700000000), IntCell(1700002800), IntCell(7200000),
   DateCell(1699999200), TextCell(2)}

\* An event log with a time column holding these cells, in rowid order.
EventLog(cells) ==
  [name |-> "event_log", columns |-> <<"id", "created">>,
   rows |-> AsTuple([i \in 1..Len(cells) |-> [id |-> IntCell(i), created |-> cells[i]]])]

\* A log of as many rows without a time as one scan takes, and one row with.
LogBeyondScan == EventLog([i \in 1..MAX_ROWS_SCAN |-> NullCell] \o <<IntCell(1700000000)>>)

SampleTables ==
  {EventLog(cells) : cells \in SeqsUpTo(TimeCells, MaxRows)} \cup {LogBeyondScan}
SampleFiles == {[size |-> 4096, isDb |-> TRUE, tables |-> <<t>>] : t \in SampleTables}

\* A client posts ANALYZE with the bytes of a sample, once.
SamplePosted ==
  \E f \in SampleFiles :
    /\ posted = {}
    /\ Becomes([World EXCEPT
                  !.inbox = Append(@, [type |-> "ANALYZE", buffer |-> <<f>>, job |-> 1]),
                  !.posted = {1}])

SeriesNext ==
  \/ SamplePosted
  \/ EngineInitialised
  \/ EngineMessageHandled
  \/ EngineMessageResumed

SeriesSpec == EngineInit /\ [][SeriesNext]_vars

(* ------------- the whole program on exports of any roles ------------ *)

\* A column for each role, by a name only the pattern of that role matches.
RoleColumns == <<"created", "duration", "operator", "status">>

\* A candidate table with two columns of no role and a column for each of
\* these roles, every column holding a value of its kind in both rows.
RoleTable(roles) ==
  LET IsHeld(c) == c \in roles
      columns == <<"id", "note">> \o SelectSeq(RoleColumns, IsHeld)
      Row(i) == [c \in {columns[n] : n \in 1..Len(columns)} |->
                   CASE c = "id" -> IntCell(i)
                     [] c = "created" -> IntCell(1700000000 + 3600 * i)
                     [] c = "duration" -> IntCell(10 * i)
                     [] c = "operator" -> TextCell(3)
                     [] c = "status" -> TextCell(3 + i)
                     [] OTHER -> TextCell(2)]
  IN [name |-> "event_log", columns |-> columns, rows |-> <<Row(1), Row(2)>>]

RoleFiles ==
  {[size |-> 4096, isDb |-> TRUE, tables |-> <<TableMisc, RoleTable(roles)>>] :
     roles \in SUBSET {RoleColumns[n] : n \in 1..Len(RoleColumns)}}

\* The user picks an export.
RoleFileSelected ==
  \E f \in RoleFiles, created \in BOOLEAN :
    /\ Len(hist) < MaxRoleSelections
    /\ Becomes(handleFileUpload(World, <<f>>, created))

RolesNext ==
  \/ RoleFileSelected
  \/ ReaderLoaded
  \/ ReaderFailed
  \/ MessageReceived
  \/ BootTimerFired
  \/ WorkerErrorReceived
  \/ EngineInitialised
  \/ EngineMessageHandled
  \/ EngineMessageResumed
  \/ EngineCrashed

RolesSpec == Init /\ [][RolesNext]_vars

(* ---------------- the engine alone, counting by groups -------------- *)

\* What a status or an operator column may hold: NULL and the texts
\* UNKNOWN, SYSTEM, ADMIT and TRIAGE.
GroupCells == {NullCell, TextCell(0), TextCell(1), TextCell(2), TextCell(3)}

\* A visit log whose status and operator columns hold these cells, in rowid
\* order.
GroupLog(cells) ==
  [name |-> "visit_log", columns |-> <<"id", "status", "operator">>,
   rows |-> AsTuple([i \in 1..Len(cells) |->
              [id |-> IntCell(i), status |-> cells[i], operator |-> cells[i]]])]

GroupFiles ==
  {[size |-> 4096, isDb |-> TRUE, tables |-> <<GroupLog(cells)>>] :
     cells \in SeqsUpTo(GroupCells, MaxRows)}

\* A client posts ANALYZE with the bytes of such a log, once.
GroupsPosted ==
  \E f \in GroupFiles :
    /\ posted = {}
    /\ Becomes([World EXCEPT
                  !.inbox = Append(@, [type |-> "ANALYZE", buffer |-> <<f>>, job |-> 1]),
                  !.posted = {1}])

GroupsNext ==
  \/ GroupsPosted
  \/ EngineInitialised
  \/ EngineMessageHandled
  \/ EngineMessageResumed

GroupsSpec == EngineInit /\ [][GroupsNext]_vars

(* --------------- the engine alone, choosing among tables ------------- *)

\* The names of tables: two of SQLite's own, and user tables with and
\* without one of the five words in their names.
TableNames ==
  <<"sqlite_sequence", "sqlite3_visits", "settings", "catalog", "Telemetry",
    "event_log", "patient_visits">>

\* The table of the n-th name: one row, in an hour of its own.
NamedTable(n) ==
  [name |-> TableNames[n], columns |-> <<"id", "created">>,
   rows |-> <<[id |-> IntCell(1), created |-> IntCell(1700000000 + 3600 * n)]>>]

\* The databases of at most MaxTables tables, in any order, no name twice.
TableLists ==
  {l \in SeqsUpTo(1..Len(TableNames), MaxTables) :
     \A i, j \in 1..Len(l) : l[i] = l[j] => i = j}
TableFiles ==
  {[size |-> 4096, isDb |-> TRUE, tables |-> [i \in 1..Len(l) |-> NamedTable(l[i])]] :
     l \in TableLists}

\* A client posts ANALYZE with the bytes of such a database, once.
TablesPosted ==
  \E f \in TableFiles :
    /\ posted = {}
    /\ Becomes([World EXCEPT
                  !.inbox = Append(@, [type |-> "ANALYZE", buffer |-> <<f>>, job |-> 1]),
                  !.posted = {1}])

TablesNext ==
  \/ TablesPosted
  \/ EngineInitialised
  \/ EngineMessageHandled
  \/ EngineMessageResumed

TablesSpec == EngineInit /\ [][TablesNext]_vars

(* ----------------- the coordinator alone, with any engine ------------ *)

\* Payloads an engine of any make may send: none, a number, an array, and
\* objects with the series missing, present as arrays, or present as
\* something else.
Bucket == [date |-> 472222, value |-> 3]
Payloads ==
  { Undefined, Num(7), Arr(<<>>), Obj(<<>>),
    Obj("visits" :> Num(1)),
    Obj("visits" :> Arr(<<>>)),
    Obj(("visits" :> Arr(<<Bucket>>)) @@ ("duration" :> Num(5))
          @@ ("states" :> Arr(<<[category |-> TextCell(1), value |-> 2]>>))
          @@ ("operators" :> Undefined)),
    CompleteMsg(aggregateTable(TablePatients), 0).payload }

WorkerMessages ==
  {ReadyMsg, ErrorMsg(Joined(<<"NO", "TABLES", "FOUND">>, "_"), 0),
   [type |-> "PONG", payload |-> Undefined, error |-> <<>>, job |-> 0]}
    \cup {[type |-> "ANALYSIS_COMPLETE", payload |-> p, error |-> <<>>, job |-> 0] :
             p \in Payloads}

\* w.onmessage: the worker of the coordinator delivers the message m.
HandledMessage(m) ==
  /\ state.worker # 0
  /\ Becomes(handleWorkerMessage(World, m))

AnyMessageReceived == \E m \in WorkerMessages : HandledMessage(m)

\* The user picks a file (or none); to the coordinator a file is its size.
CoordFileSelected ==
  \E files \in {<<>>, <<FileOversize>>, <<FileValid>>}, created \in BOOLEAN :
    /\ Len(hist) < MaxCoordSelections
    /\ Becomes(handleFileUpload(World, files, created))

\* An engine of any make takes the next message posted to it.
AnyMessageTaken ==
  /\ inbox # <<>>
  /\ Becomes([World EXCEPT !.inbox = Tail(@)])

CoordNext ==
  \/ CoordFileSelected
  \/ AnyMessageTaken
  \/ ReaderLoaded
  \/ ReaderFailed
  \/ AnyMessageReceived
  \/ BootTimerFired
  \/ WorkerErrorReceived
  \/ EngineCrashed

CoordSpec == Init /\ [][CoordNext]_vars

\* The coordinator with no file ever selected: what it makes of the messages
\* and the failures of an engine of any make.
PayloadNext ==
  \/ AnyMessageReceived
  \/ BootTimerFired
  \/ WorkerErrorReceived
  \/ EngineCrashed

PayloadSpec == Init /\ [][PayloadNext]_vars

(* ------------------------------ properties --------------------------- *)

\* A step that is a file selection (with a file): the history grows.
IsSelection == Len(hist') = Len(hist) + 1
\* The engine's side of the state.
engine == <<SQL, db, busy, inst, inbox, outbox, handles, closed, nInst>>

\* C1: a file selected while a job is PROCESSING is ignored. While
\* isProcessing holds the lifecycle state is PROCESSING; a selection made
\* then changes nothing of the coordinator or the engine (the state stays
\* PROCESSING, no read starts, nothing is posted, the job in flight is left
\* as it was); and for such a selection no read is ever started and no
\* ANALYZE is ever posted.
C1_SelectionIgnoredWhileProcessing ==
  /\ [](state.isProcessing => state.status = "PROCESSING")
  /\ [](\A j \in 1..Len(hist) : hist[j].inflight => j \notin started /\ j \notin posted)
  /\ [][(IsSelection /\ state.isProcessing) =>
          /\ state' = state /\ readers' = readers
          /\ started' = started /\ posted' = posted
          /\ engine' = engine]_vars

\* A selection was made, and ignored, while a job was in flight, and that job
\* is still in flight.
C1_Witness ==
  /\ state.isProcessing /\ state.status = "PROCESSING"
  /\ Len(hist) >= 2 /\ hist[Len(hist)].inflight
  /\ Cardinality(started) = 1

\* The jobs submitted and not yet resolved: the file was accepted (its read
\* started, its ANALYZE posted or to be posted) and the coordinator has
\* handled no completion or error of it, no failure of its read or transfer
\* and no engine crash since.
UnresolvedJobs == started \ resolved

\* C2: the coordinator never initiates a second job before the prior one
\* resolves: at no time are two submitted jobs unresolved.
C2_OneJobAtATime == Cardinality(UnresolvedJobs) <= 1

\* C3 as stated: an oversized selection made in any lifecycle state sets the
\* state INVALID, starts no read, posts nothing and opens no handle.
C3_OversizeAlwaysInvalid ==
  [][(IsSelection /\ hist'[Len(hist')].over) =>
       /\ state'.status = "INVALID"
       /\ readers' = readers /\ inbox' = inbox /\ handles' = handles]_vars

\* C3 as amended: for an oversized selection no read is ever started and no
\* ANALYZE ever posted; the selection itself opens no handle and leaves the
\* engine alone; made with no job in flight it sets the state INVALID, made
\* with a job in flight it is ignored and the state stays PROCESSING.
C3_OversizeRejected ==
  /\ [](\A j \in 1..Len(hist) : hist[j].over => j \notin started /\ j \notin posted)
  /\ [][(IsSelection /\ hist'[Len(hist')].over) =>
          /\ readers' = readers /\ engine' = engine
          /\ started' = started /\ posted' = posted
          /\ state'.isProcessing = state.isProcessing
          /\ IF state.isProcessing
             THEN state'.status = "PROCESSING"
             ELSE state'.status = "INVALID"]_vars

\* The last selection was oversized, made with no job in flight from a state
\* other than INVALID, and the state is INVALID.
C3_Witness ==
  /\ Len(hist) >= 2
  /\ hist[Len(hist)].over /\ ~hist[Len(hist)].inflight
  /\ state.status = "INVALID" /\ state.data.job # 0
  /\ readers = {} /\ inbox = <<>>

\* C4: at most one database handle is open in the engine, the one db refers
\* to: analyzeDatabase closes the handle of the prior job before it opens one.
C4_AtMostOneHandle ==
  /\ Cardinality(handles) <= 1
  /\ handles = (IF db = 0 THEN {} ELSE {db})

\* A job has opened its handle after the engine closed the handle of an
\* earlier job.
C4_Witness == db # 0 /\ closed # {} /\ handles = {db}

\* C5: every job that opens a handle closes it on exit: when the engine is
\* idle (busy false, nothing left to post) no handle is open.
C5_HandleClosedOnExit == (~busy /\ inst.pending = <<>>) => handles = {}

\* C7: the result of a job selected before an engine restart is never
\* published: whenever state.data is replaced (and the state set VALID), the
\* job it comes from was selected after the last restart.
C7_RestartDiscardsResult ==
  [][state'.data # state.data =>
       hist[state'.data.job].epoch = state.workerRestarts]_vars

\* The engine-failure steps of the coordinator: the error event of the
\* engine, or the boot timer finding no READY.
IsEngineFailure == WorkerErrorReceived \/ (BootTimerFired /\ ~state.workerReady)
\* What a restart does: the budget is used, the instance replaced by a fresh
\* one that is not ready (or by none, should the construction throw).
Restarted ==
  /\ state'.workerRestarts = state.workerRestarts + 1
  /\ ~state'.workerReady
  /\ \/ state'.worker = 0 /\ inst' = NoInst /\ nInst' = nInst
     \/ /\ state'.worker = nInst' /\ nInst' = nInst + 1 /\ inst' = NewInst
        /\ state'.workerBootTimer = "armed"
  /\ inbox' = <<>> /\ outbox' = <<>> /\ handles' = {}

\* C8 as stated: on a crash or boot-timeout with budget left the engine is
\* restarted and the lifecycle state is unchanged unless a job is in flight.
C8_SameStateUnlessMidJob ==
  [][(IsEngineFailure /\ state.workerRestarts < MAX_WORKER_RESTARTS) =>
       /\ Restarted
       /\ IF state.isProcessing
          THEN state'.status = "INVALID" /\ ~state'.isProcessing
          ELSE state'.status = state.status]_vars

\* C8 as amended: on a crash or boot-timeout with budget left the engine is
\* restarted and the lifecycle state becomes INVALID, job in flight or not;
\* no job is in flight afterwards and the published data is kept.
C8_RestartSurfacesInvalid ==
  [][(IsEngineFailure /\ state.workerRestarts < MAX_WORKER_RESTARTS) =>
       /\ Restarted
       /\ state'.status = "INVALID" /\ ~state'.isProcessing
       /\ state'.data = state.data]_vars

\* An engine failure with no file ever selected (the state was IDLE) has led
\* to a restart, and the state is INVALID.
C8_Witness ==
  /\ hist = <<>> /\ state.workerRestarts = 1
  /\ state.status = "INVALID" /\ state.worker # 0

\* C9: workerRestarts never exceeds MAX_WORKER_RESTARTS, at most
\* MAX_WORKER_RESTARTS + 1 engine instances are ever constructed, and once
\* the budget is used up no step constructs or replaces an instance.
C9_RestartBudget ==
  /\ [](state.workerRestarts <= MAX_WORKER_RESTARTS)
  /\ [](nInst <= MAX_WORKER_RESTARTS + 1)
  /\ [][state.workerRestarts >= MAX_WORKER_RESTARTS =>
          /\ nInst' = nInst /\ state'.worker = state.worker
          /\ state'.workerRestarts = state.workerRestarts]_vars

\* The budget is used up, the second instance has crashed too, its error
\* event has been handled, and it is still the coordinator's worker.
C9_Witness ==
  /\ state.workerRestarts = MAX_WORKER_RESTARTS /\ nInst = MAX_WORKER_RESTARTS + 1
  /\ inst.crashed /\ ~inst.errEvent /\ state.worker = nInst

\* C10: boot supervision. Once READY is received the boot timer is
\* cancelled (no timer is pending while workerReady holds), so the timer
\* only ever fires for an instance whose READY was not received; when it
\* fires the state becomes INVALID and a restart is made if budget remains,
\* and none otherwise.
C10_BootSupervision ==
  /\ [](state.workerReady => state.workerBootTimer = "null")
  /\ [][BootTimerFired =>
          /\ ~state.workerReady
          /\ state'.status = "INVALID"
          /\ IF state.workerRestarts < MAX_WORKER_RESTARTS
             THEN Restarted
             ELSE /\ state'.worker = state.worker /\ nInst' = nInst
                  /\ inst' = inst
                  /\ state'.workerRestarts = state.workerRestarts]_vars

\* The boot timer of the second instance has fired with no READY received
\* and no budget left: the state is INVALID and the instance stays.
C10_Witness ==
  /\ state.workerBootTimer = "fired" /\ ~state.workerReady
  /\ state.status = "INVALID" /\ state.workerRestarts = MAX_WORKER_RESTARTS

\* C11: an ANALYZE message is posted only to an engine that is ready: at
\* every step that posts one, state.worker is the live instance and
\* state.workerReady holds.
C11_PostedOnlyWhenReady ==
  [][posted' # posted =>
       state.worker # 0 /\ state.worker = nInst /\ state.workerReady]_vars

\* A selection of a file within the cap, made with no job in flight while the
\* engine is not ready (no worker, or READY not yet received).
IsUnready(h) == ~h.over /\ ~h.inflight /\ ~h.ready
IsUnreadySelection(j) == IsUnready(hist[j])

\* C12: a file within the cap selected with no job in flight while the engine
\* is not ready: the selection leaves the state INVALID with isProcessing
\* false, starts no read and posts nothing; a restart is made if budget
\* remains and none otherwise; and no read is ever started and no ANALYZE
\* ever posted for that file.
C12_NotReadySelection ==
  /\ [](\A j \in 1..Len(hist) :
          IsUnreadySelection(j) => j \notin started /\ j \notin posted)
  /\ [][(IsSelection /\ IsUnready(hist'[Len(hist')])) =>
          /\ state'.status = "INVALID" /\ ~state'.isProcessing
          /\ readers' = readers /\ started' = started /\ posted' = posted
          /\ state'.data = state.data
          /\ IF state.workerRestarts < MAX_WORKER_RESTARTS
             THEN Restarted
             ELSE /\ state'.worker = state.worker /\ nInst' = nInst
                  /\ engine' = engine
                  /\ state'.workerRestarts = state.workerRestarts]_vars

\* The only selection so far was made before READY was received, with budget
\* left: the state is INVALID and the engine has been replaced by a fresh
\* instance.
C12_Witness ==
  /\ Len(hist) = 1 /\ IsUnreadySelection(1) /\ hist[1].epoch = 0
  /\ state.status = "INVALID" /\ ~state.isProcessing
  /\ state.workerRestarts = 1 /\ nInst = 2 /\ state.worker = 2
  /\ started = {} /\ posted = {}

\* The coordinator handles an ERROR reply of the engine with this reason.
IsErrorHandled(reason) ==
  /\ outbox # <<>> /\ Head(outbox).type = "ERROR" /\ Head(outbox).error = reason
  /\ MessageReceived

\* C13: when the coordinator handles the reply of a job whose database has no
\* tables (ERROR, reason NO_TABLES_FOUND), the lifecycle state becomes INVALID
\* and the message shown is ERROR_MAP's text for that reason, not the
\* fallback of mapErrorToUser.
C13_NoTablesMessageMapped ==
  [][IsErrorHandled(Joined(<<"NO", "TABLES", "FOUND">>, "_")) =>
       /\ state'.status = "INVALID"
       /\ statusText' = "Not a valid EMR export (no tables detected)."]_vars

\* The five reason codes of analyzeDatabase.
WORKER_NOT_READY == Joined(<<"WORKER", "NOT", "READY">>, "_")
EMPTY_FILE == Joined(<<"EMPTY", "FILE">>, "_")
FILE_EXCEEDS_CAPACITY == Joined(<<"FILE", "EXCEEDS", "CAPACITY">>, "_")
NO_TABLES_FOUND == Joined(<<"NO", "TABLES", "FOUND">>, "_")
INVALID_SCHEMA == Joined(<<"INVALID", "SCHEMA">>, "_")
ReasonCodes ==
  {WORKER_NOT_READY, EMPTY_FILE, FILE_EXCEEDS_CAPACITY, NO_TABLES_FOUND, INVALID_SCHEMA}

\* A step in which the engine runs analyzeDatabase on the message at the head
\* of its inbox, and the reply the step leaves to be posted.
IsAnalysis ==
  /\ inbox # <<>> /\ Head(inbox).type = "ANALYZE" /\ ~busy
  /\ EngineMessageHandled
AnalysisReply == inst'.pending[1]
\* The facts of the buffer analysed that the reason depends on.
Initialised == SQL # "null"
BufferEmpty == Head(inbox).buffer = <<>> \/ Head(inbox).buffer[1].size = 0
BufferOverCap == ~BufferEmpty /\ Head(inbox).buffer[1].size > 100 * 1024 * 1024
UserTableNames ==
  {Head(inbox).buffer[1].tables[i].name : i \in 1..Len(Head(inbox).buffer[1].tables)}
    \ {"sqlite_sequence", "sqlite_stat1"}
HandleUntouched == handles' = handles /\ db' = db /\ closed' = closed
Fails(reason) == AnalysisReply.type = "ERROR" /\ AnalysisReply.error = reason

C15_EmptyFileNeverProcessed ==
  /\ \A r \in readers : r.file.size # 0
  /\ \A i \in 1..Len(inbox) :
        inbox[i].type = "ANALYZE" => inbox[i].buffer # <<>> /\ inbox[i].buffer[1].size # 0

\* A step that sets the lifecycle state VALID (and publishes the data of a job).
EntersValid ==
  state'.status = "VALID" /\ (state.status # "VALID" \/ state'.data # state.data)

\* C16: the lifecycle state becomes VALID only from PROCESSING, when the
\* coordinator handles an ANALYSIS_COMPLETE message whose payload passes
\* validatePayload.
C16_ValidOnlyFromProcessing ==
  [][EntersValid =>
       /\ state.status = "PROCESSING"
       /\ outbox # <<>> /\ Head(outbox).type = "ANALYSIS_COMPLETE"
       /\ validatePayload(Head(outbox).payload).ok
       /\ MessageReceived]_vars

\* The events that discard: a payload failing validation, an ERROR of the
\* engine, its crash, the boot timer, a read or transfer failure, a selection
\* that is oversized or ignored.
IsDiscardingEvent ==
  \/ \E m \in WorkerMessages :
       /\ \/ m.type = "ERROR"
          \/ m.type = "ANALYSIS_COMPLETE" /\ ~validatePayload(m.payload).ok
       /\ HandledMessage(m)
  \/ WorkerErrorReceived
  \/ BootTimerFired
  \/ ReaderFailed
  \/ state.worker = 0 /\ ReaderLoaded
  \/ IsSelection /\ (hist'[Len(hist')].over \/ hist'[Len(hist')].inflight)

\* C17: state.data changes only when the coordinator handles an
\* ANALYSIS_COMPLETE message whose payload passes validation; every
\* discarding event leaves state.data as it was and sets the lifecycle state
\* INVALID or leaves it as it was (stated by contraposition: a step that
\* changes the data, or sets a state other than INVALID, is no such event).
C17_DataFrame ==
  [][/\ state'.data # state.data =>
          \E m \in WorkerMessages :
            /\ m.type = "ANALYSIS_COMPLETE" /\ validatePayload(m.payload).ok
            /\ HandledMessage(m)
     /\ (state'.data # state.data \/ state'.status \notin {"INVALID", state.status})
          => ~IsDiscardingEvent]_vars

\* Data of an analysis were published, and a later payload that failed
\* validation has left them in place with the state INVALID.
C17_Witness ==
  /\ state.data.payload # <<>>
  /\ state.status = "INVALID" /\ statusText = "Invalid export format"

\* A payload validatePayload has to turn down: absent or no object, or its
\* visits missing or no sequence.
IsMalformed(payload) ==
  \/ payload.k # "object"
  \/ "visits" \notin DOMAIN payload.v
  \/ payload.v.visits.k # "array"

\* C18: validatePayload, seen through the ANALYSIS_COMPLETE branch that calls
\* it. A malformed payload is turned down (the state becomes INVALID with
\* "Invalid export format", the data stay); any other is accepted (the state
\* becomes VALID) and in the object published duration, states, operators
\* and volume are sequences: the payload's own where it had one, the empty
\* sequence where the series was missing or no sequence.
C18_ValidatePayload ==
  [][\A m \in WorkerMessages :
       (m.type = "ANALYSIS_COMPLETE" /\ HandledMessage(m)) =>
         IF IsMalformed(m.payload)
         THEN /\ state'.status = "INVALID" /\ statusText' = "Invalid export format"
              /\ state'.data = state.data
         ELSE /\ state'.status = "VALID"
              /\ \A f \in OptionalSeries :
                    /\ f \in DOMAIN state'.data.payload[1]
                    /\ state'.data.payload[1][f].k = "array"
                    /\ state'.data.payload[1][f] =
                         (IF f \in DOMAIN m.payload.v /\ m.payload.v[f].k = "array"
                          THEN m.payload.v[f] ELSE Arr(<<>>))]_vars

\* An object with visits and states, a duration that is a number and no
\* volume was accepted: the data published have its states, and empty
\* duration, operators and volume.
C18_Witness ==
  /\ state.status = "VALID" /\ state.data.payload # <<>>
  /\ state.data.payload[1].states.v # <<>>
  /\ state.data.payload[1].duration = Arr(<<>>)
  /\ state.data.payload[1].operators = Arr(<<>>)
  /\ state.data.payload[1].volume = Arr(<<>>)

\* The results the engine has sent or is about to send.
Results ==
  {outbox[i].payload.v : i \in {j \in 1..Len(outbox) : outbox[j].type = "ANALYSIS_COMPLETE"}}
    \cup {inst.pending[i].payload.v :
             i \in {j \in 1..Len(inst.pending) : inst.pending[j].type = "ANALYSIS_COMPLETE"}}

\* C19: whatever the size of the visit log, its analysis by an initialised
\* engine succeeds, and in every result visits has at most 24 elements,
\* states and operators at most 50 each, duration at most 100, and volume
\* none.
C19_SeriesCaps ==
  /\ [](\A r \in Results :
          /\ Len(r.visits.v) <= 24
          /\ Len(r.states.v) <= 50 /\ Len(r.operators.v) <= 50
          /\ Len(r.duration.v) <= 100
          /\ r.volume.v = <<>>)
  /\ [][(IsAnalysis /\ Initialised) => AnalysisReply.type = "ANALYSIS_COMPLETE"]_vars

\* The analysis of a log over every cap has succeeded with every series cut
\* to its cap.
C19_Witness ==
  \E r \in Results :
    /\ Len(r.visits.v) = 24 /\ Len(r.states.v) = 50 /\ Len(r.operators.v) = 50
    /\ Len(r.duration.v) = 100
    /\ r.duration.v[100].value = 100 /\ r.visits.v[24].date = HourKey(1700000000 + 3600 * 101)

\* The places of outbox holding a message of this type, and those holding a
\* reply to the message numbered job.
SentOfType(type) == {i \in 1..Len(outbox) : outbox[i].type = type}
RepliesTo(job) == {i \in 1..Len(outbox) : outbox[i].job = job}
InitFailed == Joined(<<"INIT", "FAILED">>, "_") \o <<":", " ">>

\* C20: the messages of one engine instance. READY is sent at most once and
\* only by an instance whose initialisation succeeded; one whose
\* initialisation failed has sent ERROR INIT_FAILED and sends no READY. A
\* message of another type than ANALYZE is dropped: nothing is sent and
\* nothing of the engine changes. An ANALYZE message taken up leaves exactly
\* one reply to be sent, ANALYSIS_COMPLETE or ERROR; sending it clears
\* busy; and no message ever has more than one reply.
C20_EngineReplies ==
  /\ [](/\ Cardinality(SentOfType("READY")) <= 1
        /\ SentOfType("READY") # {} => inst.init = "done" /\ SQL = "loaded"
        /\ inst.init = "failed" =>
             /\ SentOfType("READY") = {}
             /\ \E i \in SentOfType("ERROR") :
                   SubSeq(outbox[i].error, 1, Len(InitFailed)) = InitFailed
        /\ \A j \in posted : Cardinality(RepliesTo(j)) + Len(inst.pending) <= 1
                              \/ (inst.pending # <<>> /\ inst.pending[1].job # j
                                  /\ Cardinality(RepliesTo(j)) <= 1)
        /\ busy <=> inst.pending # <<>>)
  /\ [][(inbox # <<>> /\ EngineMessageHandled) =>
          IF Head(inbox).type # "ANALYZE"
          THEN /\ outbox' = outbox /\ inst' = inst
               /\ SQL' = SQL /\ db' = db /\ busy' = busy /\ handles' = handles
          ELSE /\ outbox' = outbox /\ busy'
               /\ Len(inst'.pending) = 1
               /\ inst'.pending[1].type \in {"ANALYSIS_COMPLETE", "ERROR"}
               /\ inst'.pending[1].job = Head(inbox).job
               /\ RepliesTo(Head(inbox).job) = {}]_vars
  /\ [][EngineMessageResumed =>
          /\ outbox' = Append(outbox, inst.pending[1])
          /\ ~busy' /\ inst'.pending = <<>>]_vars

\* An initialised engine has been sent an ANALYZE message and a message of
\* another type and has handled both: READY and one reply were sent, and
\* the engine is idle.
C20_Witness ==
  /\ posted = {1, 2} /\ inbox = <<>> /\ inst.pending = <<>> /\ ~busy
  /\ Len(outbox) = 2 /\ outbox[1].type = "READY"
  /\ outbox[2].type = "ANALYSIS_COMPLETE"

\* An engine just initialised: SQL loaded, no handle, no job before.
FreshEngine == init(bootstrap(Blank, TRUE), TRUE, <<>>)

Carrying(channel, job) ==
  {i \in 1..Len(channel) : channel[i].type = "ANALYZE" /\ channel[i].job = job}
ReadersOf(job) == {r \in readers : r.job = job}
SeriesNames == {"visits", "duration", "states", "operators", "volume"}

\* C22: the bytes of a job have one owner at most. While the coordinator
\* reads them no message carries them; posting ANALYZE ends the read and
\* puts them in one message, and once posted the coordinator has no reader
\* of them and never posts them again (no message carrying them is ever
\* added). What the engine sends back is READY, ANALYSIS_COMPLETE with the
\* five series, or ERROR with a reason text, never the bytes.
C22_BufferOwnership ==
  /\ [](/\ \A j \in started :
              /\ Cardinality(ReadersOf(j)) + Cardinality(Carrying(inbox, j)) <= 1
              /\ j \in posted => ReadersOf(j) = {}
         /\ \A i \in 1..Len(outbox) :
              /\ outbox[i].type \in {"READY", "ANALYSIS_COMPLETE", "ERROR"}
              /\ DOMAIN outbox[i] = {"type", "payload", "error", "job"}
              /\ IF outbox[i].type = "ANALYSIS_COMPLETE"
                 THEN /\ outbox[i].payload.k = "object"
                      /\ DOMAIN outbox[i].payload.v = SeriesNames
                 ELSE outbox[i].payload = Undefined)
  /\ [][\A j \in started' :
          Cardinality(Carrying(inbox', j)) > Cardinality(Carrying(inbox, j)) =>
            /\ j \notin posted /\ j \in posted'
            /\ ReadersOf(j) # {} /\ readers' = readers \ ReadersOf(j)
            /\ inbox' = Append(inbox, [type |-> "ANALYZE", job |-> j,
                                       buffer |-> <<(CHOOSE r \in ReadersOf(j) : TRUE).file>>])]_vars

\* The bytes of job 1 were handed to the engine, which analysed them and
\* sent the result: no reader and no message holds them any more.
C22_Witness ==
  /\ 1 \in posted /\ ReadersOf(1) = {} /\ Carrying(inbox, 1) = {}
  /\ db = 1
  /\ \E i \in 1..Len(outbox) : outbox[i].type = "ANALYSIS_COMPLETE" /\ outbox[i].job = 1

\* The table an analysis step aggregates (the first candidate of the buffer
\* at the head of the inbox) and the cells of one of its columns.
Analysed ==
  LET tables == listTables(Head(inbox).buffer[1])
  IN tables[CHOOSE i \in 1..Len(tables) :
              /\ IsCandidateTable(tables[i].name)
              /\ \A j \in 1..(i - 1) : ~IsCandidateTable(tables[j].name)]
CellsOf(table, col) == [i \in 1..Len(table.rows) |-> table.rows[i][col]]
\* The rows of a column holding a timestamp, and the hour of such a row.
Parseable(cells) == {i \in 1..Len(cells) : cells[i].k \in {"int", "date"}}
HourOf(cell) ==
  IF cell.k = "int" /\ cell.v <= 1000000000 THEN (cell.v \div 1000) \div 3600
  ELSE cell.v \div 3600

SeriesOfRole ==
  [created |-> "visits", duration |-> "duration", operator |-> "operators",
   status |-> "states"]
ColumnsOf(table) == {table.columns[n] : n \in 1..Len(table.columns)}

\* C24: the analysis of a candidate table succeeds whatever roles its
\* columns fill; the series of a role is empty exactly when no column fills
\* the role (all four are when none does), and volume always; validatePayload
\* accepts the result, and the coordinator handling it enters VALID with the
\* series as sent.
C24_AbsentRolesEmpty ==
  /\ [][(IsAnalysis /\ Initialised) =>
          /\ AnalysisReply.type = "ANALYSIS_COMPLETE"
          /\ \A role \in DOMAIN SeriesOfRole :
                (AnalysisReply.payload.v[SeriesOfRole[role]] = Arr(<<>>))
                  <=> role \notin ColumnsOf(Analysed)
          /\ AnalysisReply.payload.v.volume = Arr(<<>>)
          /\ validatePayload(AnalysisReply.payload).ok]_vars
  /\ [][(outbox # <<>> /\ Head(outbox).type = "ANALYSIS_COMPLETE" /\ MessageReceived) =>
          /\ state'.status = "VALID"
          /\ state'.data.job = Head(outbox).job
          /\ \A f \in SeriesNames :
                Len(state'.data.payload[1][f].v) = Len(Head(outbox).payload.v[f].v)]_vars

\* The export whose candidate table has no column of any role was analysed:
\* the state is VALID and the four series and volume are empty.
C24_Witness ==
  /\ state.status = "VALID" /\ state.data.job = 1
  /\ \A f \in SeriesNames : state.data.payload[1][f] = Arr(<<>>)

\* The crash of the engine was handled and no instance was started since:
\* the restart budget was found exhausted.
CrashUnrecovered == inst.crashed /\ ~inst.errEvent

\* C25: once a crash of the engine was handled, no selection starts a job
\* and no ANALYZE is posted until READY was received from an instance
\* started after the crash: a job starts or is posted only with workerReady
\* set by the live instance, and never while the crashed instance is the
\* last one (restart budget exhausted), when every selection is refused
\* with INVALID.
C25_NoJobUntilReadyAgain ==
  /\ [][(started' # started \/ posted' # posted) =>
          (state.workerReady /\ ~CrashUnrecovered)]_vars
  /\ [][(IsSelection /\ CrashUnrecovered) =>
          (state'.status = "INVALID" /\ ~state'.isProcessing)]_vars

\* C26: every job that enters PROCESSING leaves it in the end, for VALID or
\* INVALID: isProcessing is never true forever.
C26_ProcessingEnds ==
  state.isProcessing ~> (~state.isProcessing /\ state.status \in {"VALID", "INVALID"})

\* C27: visits is the most recent 24 of the hours that have data in the
\* table (all of them when there are fewer), each with the number of rows
\* of the table in that hour, whatever the size of the table and whether or
\* not it holds rows without a time.
C27_MostRecentBuckets ==
  [][(IsAnalysis /\ Initialised) =>
       LET cells == AsTuple(CellsOf(Analysed, "created"))
           timed == Parseable(cells)
           hours == {HourOf(cells[i]) : i \in timed}
           visits == AnalysisReply.payload.v.visits.v
           dates == {visits[n].date : n \in 1..Len(visits)}
       IN /\ Len(visits) = IF Cardinality(hours) < 24 THEN Cardinality(hours) ELSE 24
          /\ dates \subseteq hours
          /\ \A h \in hours \ dates : \A d \in dates : h < d
          /\ \A n \in 1..Len(visits) :
                visits[n].value =
                  Cardinality({i \in timed : HourOf(cells[i]) = visits[n].date})]_vars

\* A table of SQLite's own: its name begins with sqlite_, in any case.
IsReservedName(n) ==
  /\ Len(Tokens(n)) >= 2
  /\ Lower(Tokens(n)[1]) = "sqlite" /\ Tokens(n)[2] = "_"

\* C28: the analysis aggregates the first table, in the order the database
\* reports them and leaving out the sqlite_ tables, whose name contains one
\* of the five words in any case, and that table only; it fails with
\* NO_TABLES_FOUND when there is no table but sqlite_ tables, and with
\* INVALID_SCHEMA when there are tables and no name has one of the words.
C28_FirstCandidate ==
  [][(IsAnalysis /\ Initialised) =>
       LET IsUser(t) == ~IsReservedName(t.name)
           user == SelectSeq(Head(inbox).buffer[1].tables, IsUser)
           hits == {i \in 1..Len(user) : IsCandidateTable(user[i].name)}
       IN IF user = <<>> THEN Fails(NO_TABLES_FOUND)
          ELSE IF hits = {} THEN Fails(INVALID_SCHEMA)
          ELSE AnalysisReply =
                 CompleteMsg(aggregateTable(user[CHOOSE i \in hits : \A j \in hits : i <= j]),
                             Head(inbox).job)]_vars

\* A series of labels and counts is the grouping of these cells: an entry
\* for each distinct value (for the 50 largest groups when there are more),
\* its count the number of cells with that value, the counts descending,
\* NULL under the label given, and no label twice.
IsGrouping(labels, counts, cells, nullLabel) ==
  LET values == {cells[i] : i \in 1..Len(cells)}
      Label(v) == IF v.k = "null" THEN TextCell(nullLabel) ELSE v
      Count(v) == Cardinality({i \in 1..Len(cells) : cells[i] = v})
  IN /\ Len(labels) = IF Cardinality(values) < 50 THEN Cardinality(values) ELSE 50
     /\ \A n \in 1..Len(labels) :
           \E v \in values : labels[n] = Label(v) /\ counts[n] = Count(v)
     /\ \A n \in 1..(Len(labels) - 1) : counts[n] >= counts[n + 1]
     /\ \A v \in values :
           (\A n \in 1..Len(labels) : labels[n] # Label(v)) =>
             \A n \in 1..Len(labels) : counts[n] >= Count(v)
     /\ \A m, n \in 1..Len(labels) : labels[m] = labels[n] => m = n

\* C29: states is the grouping of the status column with NULL labelled
\* UNKNOWN, operators that of the operator column with NULL labelled
\* SYSTEM: one entry for each distinct value with the row count of its
\* group, by count descending, at most the 50 largest, no label twice.
C29_GroupSeries ==
  [][(IsAnalysis /\ Initialised) =>
       LET states == AnalysisReply.payload.v.states.v
           operators == AnalysisReply.payload.v.operators.v
       IN /\ IsGrouping([n \in 1..Len(states) |-> states[n].category],
                        [n \in 1..Len(states) |-> states[n].value],
                        CellsOf(Analysed, "status"), 0)
          /\ IsGrouping([n \in 1..Len(operators) |-> operators[n].name],
                        [n \in 1..Len(operators) |-> operators[n].value],
                        CellsOf(Analysed, "operator"), 1)]_vars

====
